---------------------------- MODULE Spec2Model ----------------------------
(***************************************************************************)
(* Model of smb_bench.py: the batch loop of main(), the steps of one       *)
(* SMBBenchmarker run, the local and remote file trees they touch, and     *)
(* the aggregation pass over the completed runs.                           *)
(*                                                                         *)
(* Units.  File sizes are bytes.  A measured duration is an integer count  *)
(* of 1/10000 s.  A stored metric is an integer in its own decimal scale:  *)
(* "seconds" in 1/1000 (round(x, 3)), "mbps", "MB_s" and "MiB_s" in 1/100  *)
(* (round(x, 2)), "files_sec" in 1/10 (round(x, 1)).  An aggregate value   *)
(* is an integer in 1/100 (round(x, 2)).  round() is modelled as rounding  *)
(* to the nearest unit, a tie going to the even neighbour.                 *)
(*                                                                         *)
(* Steps.  Each method call of main()'s try block is one action; the two   *)
(* test methods are split into their upload and download halves.  A step   *)
(* either returns or raises: what its I/O calls can raise (an OSError, a   *)
(* KeyboardInterrupt) is drawn nondeterministically, with the effects the  *)
(* step had until then.                                                    *)
(*                                                                         *)
(* Left out: the test name, timestamps and the "config" section of the     *)
(* results, console output, and files of the staging directories that do   *)
(* not match *.bin.  The local staging tree and the remote staging         *)
(* directory are taken to be different directories.                        *)
(***************************************************************************)
EXTENDS Integers, Sequences, FiniteSets, TLC

\* ------------------------------------------------------------------ bounds

\* Largest --batch value explored.
MaxBatch == 2

\* ------------------------------------------------------- program constants

\* _generate_file: chunk_size = 1024 * 1024.
chunk_size == 1024 * 1024

None == "None"

\* The empty dict {}.
EmptyDict == [k \in {} |-> 0]

Directions == {"upload", "download"}
MetricKeys == {"seconds", "mbps", "MB_s", "MiB_s", "files_sec"}

\* --------------------------------------------------------- explored inputs

\* Command lines explored: --large-mb, --small-count (argparse type=int
\* accepts negative numbers), (--small-min-kb, --small-max-kb).
LargeMbChoices == {-1, 0, 2}
SmallCountChoices == {-1, 0, 2}
SmallKbChoices == {<<1, 2>>, <<2, 1>>}

\* Durations a perf_counter() difference is drawn from, in 1/10000 s: on a
\* host whose measurements vary, and on one where every measurable copy
\* takes the same time.  0 is a difference below the timer's resolution.
DurChoices == {0, 12346, 20000}
SteadyDurChoices == {0, 20000}

\* A local file: its size and the run that wrote it (0: before the program).
File(size, ver) == [exists |-> TRUE, size |-> size, ver |-> ver]
\* No file at the path.
NoFile == [exists |-> FALSE, size |-> 0, ver |-> 0]

\* Contents of <source>/smb_bench_staging/large_test_file.bin at start.
LargeFileChoices == {NoFile, File(0, 0), File(2 * 1024 * 1024, 0)}

\* Contents of <source>/smb_bench_staging/small_files/*.bin at start,
\* file small_<i>.bin being index i.
SmallFilesChoices ==
    { EmptyDict,
      (0 :> File(5 * 1024, 0)),
      (0 :> File(5 * 1024, 0)) @@ (1 :> File(1024, 0)) }

\* ----------------------------------------------------------------- helpers

Min(a, b) == IF a < b THEN a ELSE b

RECURSIVE Sum(_, _)
Sum(f, S) == IF S = {} THEN 0
             ELSE LET x == CHOOSE y \in S : TRUE IN f[x] + Sum(f, S \ {x})

\* round(n / d) for n >= 0, d > 0: nearest integer, a tie to the even one.
RoundDiv(n, d) ==
    LET q == n \div d
        r == n % d
    IN  IF 2 * r < d THEN q
        ELSE IF 2 * r > d THEN q + 1
        ELSE IF q % 2 = 0 THEN q ELSE q + 1

\* SMBBenchmarker._generate_file: open(path, 'wb') truncates the file, then
\* chunks are written until size_bytes are written.
RECURSIVE WriteLoop(_, _, _)
WriteLoop(written, size_bytes, chunk_len) ==
    IF written < size_bytes
    THEN WriteLoop(written + Min(size_bytes - written, chunk_len),
                   size_bytes, chunk_len)
    ELSE written

\* Result of _generate_file(path, size_bytes): whether os.urandom raised
\* ValueError (negative length), and the size of the file left at path.
generate_file(size_bytes) ==
    IF Min(size_bytes, chunk_size) < 0
    THEN [raised |-> TRUE, size |-> 0]
    ELSE [raised |-> FALSE,
          size |-> WriteLoop(0, size_bytes, Min(size_bytes, chunk_size))]

\* SMBBenchmarker._calculate_metrics, time_d in 1/10000 s, each value in its
\* scale: mbps = bytes * 8 / 1e6 / (time_d / 1e4) * 100 = bytes * 8 / time_d;
\* MiB_s = bytes / 1048576 / (time_d / 1e4) * 100
\*       = bytes * 15625 / (16384 * time_d), computed on bytes / 1024 (every
\* file size explored is a multiple of 1024).
calculate_metrics(bytes_transferred, time_d, file_count) ==
    IF time_d = 0 THEN EmptyDict
    ELSE [seconds   |-> RoundDiv(time_d, 10),
          mbps      |-> RoundDiv(bytes_transferred * 8, time_d),
          MB_s      |-> RoundDiv(bytes_transferred, time_d),
          MiB_s     |-> RoundDiv((bytes_transferred \div 1024) * 15625,
                                 16 * time_d),
          files_sec |-> RoundDiv(file_count * 100000, time_d)]

\* ------------------------------------------------------------------- state

VARIABLES
    args,           \* the parsed command line
    initial,        \* the local source files when the program started
    clock,          \* the durations the host's timer can measure
    pc,             \* main()'s position
    run_num,        \* the for loop's run_num (0 before the loop)
    status,         \* the run: "running", "completed", or what it raised
    large_size,     \* bench.large_size
    small_count,    \* bench.small_count
    results,        \* bench.results: its large_file and small_files sections
    large_file,     \* main's large_file: None or the path
    small_dir,      \* main's small_dir: None or the path
    local_large,    \* smb_bench_staging/large_test_file.bin: NoFile or a File
    local_small,    \* smb_bench_staging/small_files/*.bin: index -> File
    local_temp,     \* download temporaries present in smb_bench_staging
    remote,         \* <target>/smb_bench_target_<test_name>
    reports,        \* runs whose SMB_Report_<name><suffix>_<t>.json is written
    all_results,    \* main's all_results
    aggregate,      \* the aggregate reports written (at most one)
    trace,          \* steps the current run has started, in order
    cleanup_calls,  \* run -> number of cleanup_remote() calls
    cleanup_result  \* how the last cleanup_remote() call ended

vars == <<args, initial, clock, pc, run_num, status, large_size, small_count,
          results, large_file, small_dir, local_large, local_small,
          local_temp, remote,
          reports, all_results, aggregate, trace, cleanup_calls,
          cleanup_result>>

env == <<args, initial, clock>>
fs == <<local_large, local_small, local_temp>>
bench == <<large_size, small_count, results, large_file, small_dir>>
outputs == <<reports, all_results, aggregate>>

Path == "Path"
NoRemote == [exists |-> FALSE, large |-> FALSE, small |-> FALSE]
EmptyResults == [large_file |-> EmptyDict, small_files |-> EmptyDict]

\* What an I/O call can raise: KeyboardInterrupt or an Exception (OSError),
\* both handled at main lines 448-453, as are the KeyError and ValueError
\* the steps raise themselves.
RaiseKinds == {"KeyboardInterrupt", "Exception"}
Raised == status \in RaiseKinds \cup {"KeyError", "ValueError"}

\* In no-generation mode --large-mb, --small-count and --small-*-kb are
\* never read by the run (the setup steps replace them), so one value of
\* each is explored there.
ArgChoices ==
    { a \in [batch : 0 .. MaxBatch, no_gen : BOOLEAN,
             large_mb : LargeMbChoices, small_count : SmallCountChoices,
             small_kb : SmallKbChoices] :
        a.no_gen => a.large_mb = 2 /\ a.small_count = 2
                    /\ a.small_kb = <<1, 2>> }

\* Command lines explored on the host whose measurements vary.
TimedArgChoices ==
    { a \in ArgChoices :
        a.large_mb = 2 /\ a.small_count = 2 /\ a.small_kb = <<1, 2>> }

Init ==
    /\ \/ /\ args \in TimedArgChoices
          /\ local_large = File(2 * 1024 * 1024, 0)
          /\ local_small = (0 :> File(5 * 1024, 0)) @@ (1 :> File(1024, 0))
          /\ clock = DurChoices
       \/ /\ args \in ArgChoices
          /\ local_large \in LargeFileChoices
          /\ local_small \in SmallFilesChoices
          /\ clock = SteadyDurChoices
    /\ initial = [large |-> local_large, small |-> local_small]
    /\ pc = "start"
    /\ run_num = 0
    /\ status = "running"
    /\ large_size = 0
    /\ small_count = 0
    /\ results = EmptyResults
    /\ large_file = None
    /\ small_dir = None
    /\ local_temp = {}
    /\ remote = NoRemote
    /\ reports = {}
    /\ all_results = <<>>
    /\ aggregate = <<>>
    /\ trace = <<>>
    /\ cleanup_calls = [k \in 1 .. MaxBatch |-> 0]
    /\ cleanup_result = None

\* main lines 402-415: --batch is validated and the loop is entered.
Start ==
    /\ pc = "start"
    /\ IF args.batch < 1
       THEN pc' = "done" /\ run_num' = run_num
       ELSE pc' = "construct" /\ run_num' = 1
    /\ UNCHANGED <<env, status, bench, fs, remote, outputs, trace,
                   cleanup_calls, cleanup_result>>

\* SMBBenchmarker.__init__ (main lines 424-434).
Construct ==
    /\ pc = "construct"
    /\ large_size' = args.large_mb * 1024 * 1024
    /\ small_count' = args.small_count
    /\ results' = EmptyResults
    /\ large_file' = None
    /\ small_dir' = None
    /\ status' = "running"
    /\ trace' = <<>>
    /\ pc' = "setup_large"
    /\ UNCHANGED <<env, run_num, fs, remote, outputs, cleanup_calls,
                   cleanup_result>>

\* Raise without the finally block: the handler breaks the loop at once.
Raise_NoFinally(kind) ==
    /\ pc' = "done"
    /\ status' = kind

\* Raise swallowed inside the step: the run goes on to the report.
Raise_Swallowed(kind) ==
    /\ pc' = "save_report"
    /\ status' = kind

\* An exception leaves the try block (main lines 448-456): the handler
\* breaks the loop once the finally block has run.
Raise(kind) ==
    /\ pc' = "cleanup"
    /\ status' = kind

Step(name) == trace' = Append(trace, name)

\* Sizes a write of size_bytes may leave behind when it is cut short: the
\* chunks written so far.
PartialSizes(size_bytes) ==
    {0} \cup { i * chunk_size : i \in 1 .. ((size_bytes - 1) \div chunk_size) }

\* large_file_case without the no-generation branch.
large_file_case_NoGenIgnored(no_gen, f, size) ==
    IF f.exists /\ f.size = size THEN "reuse" ELSE "generate"

\* large_file_case reusing any existing file, whatever its size.
large_file_case_NoSizeCheck(no_gen, f, size) ==
    IF no_gen
    THEN IF f.exists THEN "use" ELSE "skip"
    ELSE IF f.exists THEN "reuse" ELSE "generate"

\* setup_large_file's branches (lines 118-135): in no-generation mode the
\* file found is used or the test skipped; otherwise a file of the
\* configured size is reused and anything else regenerated.
large_file_case(no_gen, f, size) ==
    IF no_gen
    THEN IF f.exists THEN "use" ELSE "skip"
    ELSE IF f.exists /\ f.size = size THEN "reuse" ELSE "generate"

\* SMBBenchmarker.setup_large_file (lines 113-136), called at main line 437.
setup_large_file ==
    /\ pc = "setup_large"
    /\ Step("setup_large_file")
    /\ LET case == large_file_case(args.no_gen, local_large, large_size)
           g == generate_file(large_size)
       IN
       \/ /\ case = "use"
          /\ large_size' = local_large.size
          /\ large_file' = Path
          /\ pc' = "setup_small"
          /\ UNCHANGED <<local_large, status>>
       \/ /\ case = "skip"
          /\ large_file' = None
          /\ pc' = "setup_small"
          /\ UNCHANGED <<local_large, large_size, status>>
       \/ /\ case = "reuse"
          /\ large_file' = Path
          /\ pc' = "setup_small"
          /\ UNCHANGED <<local_large, large_size, status>>
       \/ /\ case = "generate" /\ ~g.raised
          /\ local_large' = File(g.size, run_num)
          /\ large_file' = Path
          /\ pc' = "setup_small"
          /\ UNCHANGED <<large_size, status>>
       \/ \* os.urandom raises ValueError once open() has truncated the file
          /\ case = "generate" /\ g.raised
          /\ local_large' = File(g.size, run_num)
          /\ Raise("ValueError")
          /\ UNCHANGED <<large_size, large_file>>
       \/ \* the write is cut short (I/O error, interrupt)
          /\ case = "generate" /\ ~g.raised
          /\ \E w \in PartialSizes(large_size) :
               local_large' = File(w, run_num)
          /\ \E kind \in RaiseKinds : Raise(kind)
          /\ UNCHANGED <<large_size, large_file>>
       \/ \* exists() or stat() raises, or the user interrupts them
          /\ case # "generate"
          /\ \E kind \in RaiseKinds : Raise(kind)
          /\ UNCHANGED <<local_large, large_size, large_file>>
    /\ UNCHANGED <<env, run_num, small_count, results, small_dir, local_small,
                   local_temp, remote, outputs, cleanup_calls, cleanup_result>>

\* Values of random.randint(a, b) explored: the multiples of 1024 in a .. b
\* (none when a > b, where randint raises ValueError).
RandintChoices(a, b) == { x \in a .. b : x % 1024 = 0 }

\* The files small_0.bin .. small_<n-1>.bin as generated by run k with the
\* sizes drawn (lines 183-186).
GeneratedFiles(sizes, k) ==
    [i \in DOMAIN sizes |-> File(generate_file(sizes[i]).size, k)]

\* small_files_case reusing whatever files exist, whatever their number.
small_files_case_ReuseAny(no_gen, n_existing, count) ==
    IF no_gen
    THEN IF n_existing > 0 THEN "use" ELSE "skip"
    ELSE IF n_existing > 0 THEN "reuse" ELSE "generate"

\* setup_small_files' branches (lines 146-176): in no-generation mode the
\* files found are used or the test skipped; otherwise the files are reused
\* if the count matches and regenerated if not.
small_files_case(no_gen, n_existing, count) ==
    IF no_gen
    THEN IF n_existing > 0 THEN "use" ELSE "skip"
    ELSE IF n_existing = count THEN "reuse" ELSE "generate"

\* SMBBenchmarker.setup_small_files (lines 138-190), called at main line 438.
setup_small_files ==
    /\ pc = "setup_small"
    /\ Step("setup_small_files")
    /\ LET existing == DOMAIN local_small
           case == small_files_case(args.no_gen, Cardinality(existing),
                                    small_count)
           small_min_size == args.small_kb[1] * 1024
           small_max_size == args.small_kb[2] * 1024
           \* range(self.small_count) is empty for a count below 1
           n == IF small_count > 0 THEN small_count ELSE 0
           choices == RandintChoices(small_min_size, small_max_size)
       IN
       \/ /\ case = "use"
          /\ small_count' = Cardinality(existing)
          /\ small_dir' = Path
          /\ pc' = "tests"
          /\ UNCHANGED <<local_small, status>>
       \/ /\ case = "skip"
          /\ small_dir' = None
          /\ pc' = "tests"
          /\ UNCHANGED <<local_small, small_count, status>>
       \/ /\ case = "reuse"
          /\ small_dir' = Path
          /\ pc' = "tests"
          /\ UNCHANGED <<local_small, small_count, status>>
       \/ \* the directory is removed and every file generated
          /\ case = "generate"
          /\ \E sizes \in [0 .. n - 1 -> choices] :
               local_small' = GeneratedFiles(sizes, run_num)
          /\ small_dir' = Path
          /\ pc' = "tests"
          /\ UNCHANGED <<small_count, status>>
       \/ \* randint raises ValueError on the first file
          /\ case = "generate" /\ n > 0 /\ choices = {}
          /\ local_small' = EmptyDict
          /\ Raise("ValueError")
          /\ UNCHANGED <<small_count, small_dir>>
       \/ \* rmtree(ignore_errors=True) leaves the directory behind and
          \* mkdir() raises FileExistsError
          /\ case = "generate"
          /\ \E keep \in SUBSET existing :
               local_small' = [i \in keep |-> local_small[i]]
          /\ Raise("Exception")
          /\ UNCHANGED <<small_count, small_dir>>
       \/ \* the generation is cut short after j files
          /\ case = "generate"
          /\ \E j \in 0 .. n - 1 : \E sizes \in [0 .. j - 1 -> choices] :
               local_small' = GeneratedFiles(sizes, run_num)
          /\ \E kind \in RaiseKinds : Raise(kind)
          /\ UNCHANGED <<small_count, small_dir>>
       \/ \* glob() or stat() raises, or the user interrupts them
          /\ case # "generate"
          /\ \E kind \in RaiseKinds : Raise(kind)
          /\ UNCHANGED <<local_small, small_count, small_dir>>
    /\ UNCHANGED <<env, run_num, large_size, results, large_file, local_large,
                   local_temp, remote, outputs, cleanup_calls, cleanup_result>>

\* AfterSetup without the "if large_file:" guards.
AfterSetup_NoGuard(lf, sd) == "large_up"

\* main lines 440-446: which step follows the two setup steps, and which
\* follows the large-file test.
AfterSetup(lf, sd) ==
    IF lf # None THEN "large_up"
    ELSE IF sd # None THEN "small_up"
    ELSE "save_report"

AfterLargeTest(sd) == IF sd # None THEN "small_up" ELSE "save_report"

\* main lines 441-446: the tests that setup made possible are dispatched.
Dispatch ==
    /\ pc = "tests"
    /\ pc' = AfterSetup(large_file, small_dir)
    /\ UNCHANGED <<env, run_num, status, bench, fs, remote, outputs, trace,
                   cleanup_calls, cleanup_result>>

\* PrintRaises with a print that tolerates the empty dict.
PrintRaises_Never(metrics) == FALSE

\* What the f-string after a measurement does with the metrics (lines 207,
\* 222, 249, 263): metrics['seconds'] raises KeyError on the empty dict.
PrintRaises(metrics) == "seconds" \notin DOMAIN metrics

\* self.results[section][direction] = metrics
Record(res, section, direction, metrics) ==
    [res EXCEPT ![section] = (direction :> metrics) @@ res[section]]

\* run_large_test, UPLOAD (lines 196-208).
large_upload ==
    /\ pc = "large_up"
    /\ Step("large_upload")
    /\ \/ \* the copy completes and is measured
          /\ remote' = [remote EXCEPT !.exists = TRUE, !.large = TRUE]
          /\ \E duration \in clock :
               LET metrics == calculate_metrics(large_size, duration, 1) IN
               IF PrintRaises(metrics)
               THEN Raise("KeyError") /\ UNCHANGED results
               ELSE /\ results' = Record(results, "large_file", "upload",
                                         metrics)
                    /\ pc' = "large_down"
                    /\ UNCHANGED status
       \/ \* mkdir or copy2 raises, or the user interrupts
          /\ \E copied \in BOOLEAN :
               remote' = [remote EXCEPT !.exists = TRUE, !.large = copied]
          /\ \E kind \in RaiseKinds : Raise(kind)
          /\ UNCHANGED results
    /\ UNCHANGED <<env, run_num, large_size, small_count, large_file,
                   small_dir, fs, outputs, cleanup_calls, cleanup_result>>

\* run_large_test, DOWNLOAD and its cleanup (lines 210-227).
large_download ==
    /\ pc = "large_down"
    /\ Step("large_download")
    /\ \/ /\ \E duration \in clock :
               LET metrics == calculate_metrics(large_size, duration, 1) IN
               IF PrintRaises(metrics)
               THEN /\ Raise("KeyError")
                    /\ local_temp' = local_temp \cup {"download_temp"}
                    /\ UNCHANGED <<results, remote>>
               ELSE /\ results' = Record(results, "large_file", "download",
                                         metrics)
                    /\ local_temp' = local_temp \ {"download_temp"}
                    /\ remote' = [remote EXCEPT !.large = FALSE]
                    /\ pc' = AfterLargeTest(small_dir)
                    /\ UNCHANGED status
       \/ /\ local_temp' = local_temp \cup {"download_temp"}
          /\ \E kind \in RaiseKinds : Raise(kind)
          /\ UNCHANGED <<results, remote>>
    /\ UNCHANGED <<env, run_num, large_size, small_count, large_file,
                   small_dir, local_large, local_small, outputs,
                   cleanup_calls, cleanup_result>>

\* run_small_test, UPLOAD (lines 233-250).
small_upload ==
    /\ pc = "small_up"
    /\ Step("small_upload")
    /\ LET files == DOMAIN local_small
           total_size == Sum([f \in files |-> local_small[f].size], files)
           file_count == Cardinality(files)
       IN
       \/ /\ remote' = [remote EXCEPT !.exists = TRUE, !.small = TRUE]
          /\ \E duration \in clock :
               LET metrics == calculate_metrics(total_size, duration,
                                                file_count) IN
               IF PrintRaises(metrics)
               THEN Raise("KeyError") /\ UNCHANGED results
               ELSE /\ results' = Record(results, "small_files", "upload",
                                         metrics)
                    /\ pc' = "small_down"
                    /\ UNCHANGED status
       \/ /\ remote' = [remote EXCEPT !.exists = TRUE, !.small = TRUE]
          /\ \E kind \in RaiseKinds : Raise(kind)
          /\ UNCHANGED results
    /\ UNCHANGED <<env, run_num, large_size, small_count, large_file,
                   small_dir, fs, outputs, cleanup_calls, cleanup_result>>

\* run_small_test, DOWNLOAD and its cleanup (lines 252-268).
small_download ==
    /\ pc = "small_down"
    /\ Step("small_download")
    /\ LET files == DOMAIN local_small
           total_size == Sum([f \in files |-> local_small[f].size], files)
           file_count == Cardinality(files)
       IN
       \/ /\ \E duration \in clock :
               LET metrics == calculate_metrics(total_size, duration,
                                                file_count) IN
               IF PrintRaises(metrics)
               THEN /\ Raise("KeyError")
                    /\ local_temp' = local_temp \cup {"small_files_temp_down"}
                    /\ UNCHANGED <<results, remote>>
               ELSE /\ results' = Record(results, "small_files", "download",
                                         metrics)
                    /\ local_temp' = local_temp \ {"small_files_temp_down"}
                    /\ remote' = [remote EXCEPT !.small = FALSE]
                    /\ pc' = "save_report"
                    /\ UNCHANGED status
       \/ /\ local_temp' = local_temp \cup {"small_files_temp_down"}
          /\ \E kind \in RaiseKinds : Raise(kind)
          /\ UNCHANGED <<results, remote>>
    /\ UNCHANGED <<env, run_num, large_size, small_count, large_file,
                   small_dir, local_large, local_small, outputs,
                   cleanup_calls, cleanup_result>>

\* save_report's summary (lines 293-311) reads the download entry and the
\* printed metrics of every section that has an upload entry; a missing key
\* raises KeyError.
SummaryRaises(res) ==
    \/ /\ "upload" \in DOMAIN res.large_file
       /\ \/ "download" \notin DOMAIN res.large_file
          \/ \E d \in DOMAIN res.large_file :
               {"MB_s", "mbps"} \ DOMAIN res.large_file[d] # {}
    \/ /\ "upload" \in DOMAIN res.small_files
       /\ \/ "download" \notin DOMAIN res.small_files
          \/ \E d \in DOMAIN res.small_files :
               {"files_sec", "MB_s"} \ DOMAIN res.small_files[d] # {}

\* SMBBenchmarker.save_report (lines 278-313) and, when it returns,
\* all_results.append(bench.results) (main lines 446-447).
save_report ==
    /\ pc = "save_report"
    /\ Step("save_report")
    /\ \/ \* the report is written and summarised
          /\ ~SummaryRaises(results)
          /\ reports' = reports \cup {run_num}
          /\ all_results' = Append(all_results, results)
          /\ status' = "completed"
          /\ pc' = "cleanup"
       \/ \* open() or json.dump() raises, or the user interrupts them
          /\ \E kind \in RaiseKinds : Raise(kind)
          /\ UNCHANGED <<reports, all_results>>
       \/ \* the report is written, then the summary raises or is interrupted
          /\ reports' = reports \cup {run_num}
          /\ \E kind \in RaiseKinds :
               IF SummaryRaises(results) THEN Raise("KeyError")
               ELSE Raise(kind)
          /\ UNCHANGED all_results
    /\ UNCHANGED <<env, run_num, bench, fs, remote, aggregate, cleanup_calls,
                   cleanup_result>>

\* main lines 458-459: after the loop, the aggregate pass or the end.
AfterLoop(batch, n_results) ==
    IF batch > 1 /\ n_results > 1 THEN "aggregate" ELSE "done"

\* AfterCleanup without the break statements.
AfterCleanup_NoBreak(st, k, batch, n_results) ==
    IF k < batch THEN "construct"
    ELSE IF batch > 1 /\ n_results > 1 THEN "aggregate" ELSE "done"

\* main lines 415, 448-453: after the finally block of run k, the loop goes
\* on to the next run unless the run raised (break) or was the last.
AfterCleanup(st, k, batch, n_results) ==
    IF st = "completed" /\ k < batch THEN "construct"
    ELSE AfterLoop(batch, n_results)

\* CaughtInCleanup without the try/except.
CaughtInCleanup_Nothing(kind) == FALSE

\* cleanup_remote line 275: "except Exception" catches what derives from
\* Exception; KeyboardInterrupt does not.
CaughtInCleanup(kind) == kind = "Exception"

\* The finally block (main lines 454-456) and SMBBenchmarker.cleanup_remote
\* (lines 270-276).
cleanup_remote ==
    /\ pc = "cleanup"
    /\ Step("cleanup_remote")
    /\ cleanup_calls' = [cleanup_calls EXCEPT ![run_num] = @ + 1]
    /\ \/ \* the directory, if it exists, is removed
          /\ remote' = NoRemote
          /\ cleanup_result' = "removed"
          /\ pc' = AfterCleanup(status, run_num, args.batch, Len(all_results))
          /\ run_num' = IF pc' = "construct" THEN run_num + 1 ELSE run_num
       \/ \* exists() or rmtree() raises, or the user interrupts them
          \E kind \in RaiseKinds :
             /\ UNCHANGED remote
             /\ cleanup_result' = kind
             /\ IF CaughtInCleanup(kind)
                THEN \* a warning is printed and the loop goes on
                     /\ pc' = AfterCleanup(status, run_num, args.batch,
                                           Len(all_results))
                     /\ run_num' = IF pc' = "construct" THEN run_num + 1
                                   ELSE run_num
                ELSE \* the exception leaves main
                     /\ pc' = "uncaught"
                     /\ UNCHANGED run_num
    /\ UNCHANGED <<env, status, bench, fs, outputs>>

Scale(metric) ==
    IF metric = "seconds" THEN 1000
    ELSE IF metric = "files_sec" THEN 10
    ELSE 100

RECURSIVE SumSeq(_)
SumSeq(q) == IF q = <<>> THEN 0 ELSE Head(q) + SumSeq(Tail(q))

MinSeq(q) == CHOOSE x \in { q[i] : i \in DOMAIN q } :
                 \A i \in DOMAIN q : x <= q[i]
MaxSeq(q) == CHOOSE x \in { q[i] : i \in DOMAIN q } :
                 \A i \in DOMAIN q : x >= q[i]

\* MetricStats taking the first run's value for the minimum.
MetricStats_MinOfFirst(values, metric) ==
    [avg |-> RoundDiv(SumSeq(values) * 100, Len(values) * Scale(metric)),
     min |-> RoundDiv(values[1] * 100, Scale(metric)),
     max |-> RoundDiv(MaxSeq(values) * 100, Scale(metric))]

\* Lines 329-335 and 340-346: the three statistics of one metric, each
\* round(.., 2).
MetricStats(values, metric) ==
    [avg |-> RoundDiv(SumSeq(values) * 100, Len(values) * Scale(metric)),
     min |-> RoundDiv(MinSeq(values) * 100, Scale(metric)),
     max |-> RoundDiv(MaxSeq(values) * 100, Scale(metric))]

\* Lines 327-335 and 338-346: a section is aggregated when the first run
\* has an upload entry in it.
SectionStats(rs, section) ==
    IF "upload" \in DOMAIN rs[1][section]
    THEN [direction \in Directions |->
            [metric \in MetricKeys |->
               MetricStats([i \in 1 .. Len(rs) |->
                              rs[i][section][direction][metric]], metric)]]
    ELSE EmptyDict

\* Whether a lookup of lines 331 or 342 raises KeyError.
AggregateRaises(rs) ==
    \E section \in {"large_file", "small_files"} :
       /\ "upload" \in DOMAIN rs[1][section]
       /\ \E i \in 1 .. Len(rs) : \E direction \in Directions :
            \/ direction \notin DOMAIN rs[i][section]
            \/ MetricKeys \ DOMAIN rs[i][section][direction] # {}

\* calculate_aggregate_stats (lines 315-348).
calculate_aggregate_stats(rs) ==
    [batch_count |-> Len(rs),
     large_file  |-> SectionStats(rs, "large_file"),
     small_files |-> SectionStats(rs, "small_files")]

\* main lines 459-464: the aggregate report is computed and written.
write_aggregate ==
    /\ pc = "aggregate"
    /\ \/ /\ ~AggregateRaises(all_results)
          /\ aggregate' = <<calculate_aggregate_stats(all_results)>>
          /\ pc' = "done"
       \/ \* a lookup, open() or json.dump() raises, or the user interrupts
          /\ pc' = "uncaught"
          /\ UNCHANGED aggregate
    /\ UNCHANGED <<env, run_num, status, bench, fs, remote, reports,
                   all_results, trace, cleanup_calls, cleanup_result>>

Next ==
    \/ Start
    \/ Construct
    \/ setup_large_file
    \/ setup_small_files
    \/ Dispatch
    \/ large_upload
    \/ large_download
    \/ small_upload
    \/ small_download
    \/ save_report
    \/ cleanup_remote
    \/ write_aggregate

Spec == Init /\ [][Next]_vars

\* ------------------------------------------------------------------ claims

InTrace(name) == \E i \in DOMAIN trace : trace[i] = name

\* The entry of a section's direction is stored with all five metrics.
Recorded(res, section, direction) ==
    /\ direction \in DOMAIN res[section]
    /\ DOMAIN res[section][direction] = MetricKeys

\* Run k has left its try/finally statement.
Finished(k) ==
    \/ k < run_num
    \/ k = run_num /\ pc \in {"aggregate", "done", "uncaught"}

Rank(step) ==
    CASE step = "setup_large_file" -> 1
      [] step = "setup_small_files" -> 2
      [] step = "large_upload" -> 3
      [] step = "large_download" -> 4
      [] step = "small_upload" -> 5
      [] step = "small_download" -> 6
      [] step = "save_report" -> 7
      [] step = "cleanup_remote" -> 8

\* C2: the steps of a run start in the order setup_large_file,
\* setup_small_files, large upload, large download, small upload, small
\* download, save_report, cleanup_remote, each at most once; no copy starts
\* before both setup steps have run, a download starts only once its upload
\* is recorded, the small test only once the large test that ran is
\* recorded, and the report only once every test that ran has recorded both
\* directions.
C2_StepOrder ==
    /\ \A i, j \in DOMAIN trace : i < j => Rank(trace[i]) < Rank(trace[j])
    /\ (InTrace("large_upload") \/ InTrace("small_upload"))
         => /\ Len(trace) >= 2
            /\ trace[1] = "setup_large_file"
            /\ trace[2] = "setup_small_files"
    /\ InTrace("large_download")
         => InTrace("large_upload") /\ Recorded(results, "large_file", "upload")
    /\ InTrace("small_download")
         => InTrace("small_upload") /\ Recorded(results, "small_files", "upload")
    /\ (InTrace("small_upload") /\ InTrace("large_upload"))
         => Recorded(results, "large_file", "download")
    /\ InTrace("save_report")
         => /\ InTrace("large_upload")
                 => \A d \in Directions : Recorded(results, "large_file", d)
            /\ InTrace("small_upload")
                 => \A d \in Directions : Recorded(results, "small_files", d)
    /\ InTrace("cleanup_remote") => trace[Len(trace)] = "cleanup_remote"

\* A run that went through all eight steps.
C2_Witness ==
    trace = <<"setup_large_file", "setup_small_files", "large_upload",
              "large_download", "small_upload", "small_download",
              "save_report", "cleanup_remote">>

\* C3: in no-generation mode large_test_file.bin and the files of
\* small_files are, in every state, the files the program started with.
C3_NoGenLeavesSourceFiles ==
    args.no_gen => local_large = initial.large /\ local_small = initial.small

\* Two no-generation runs that copied both the large file and the small
\* files to the target and back.
C3_Witness ==
    /\ args.no_gen /\ pc = "done" /\ Len(all_results) = 2
    /\ \A d \in Directions :
         /\ Recorded(all_results[2], "large_file", d)
         /\ Recorded(all_results[2], "small_files", d)

\* setup_large_file returns in normal (generation) mode.
LargeSetupReturns == pc = "setup_large" /\ pc' = "setup_small" /\ ~args.no_gen

\* C4: in normal mode, whenever setup_large_file returns, the large file
\* exists with exactly large_file_size_mb * 1024 * 1024 bytes, and it is
\* the file found before the call if and only if that file already had
\* that size.
C4_LargeFileSizeAfterSetup ==
    [][LargeSetupReturns =>
         LET wanted == args.large_mb * 1024 * 1024 IN
         /\ local_large'.exists
         /\ local_large'.size = wanted
         /\ (local_large' = local_large)
              <=> (local_large.exists /\ local_large.size = wanted)]_vars

\* A 2 MiB file found with --large-mb 0 has been regenerated to 0 bytes.
C4_Witness ==
    /\ pc = "setup_small" /\ ~args.no_gen /\ args.large_mb = 0
    /\ initial.large = File(2 * 1024 * 1024, 0)
    /\ local_large = File(0, 1)

\* setup_small_files returns a directory in normal (generation) mode.
SmallSetupReturns ==
    pc = "setup_small" /\ pc' = "tests" /\ ~args.no_gen /\ small_dir' = Path

InRange(f) ==
    /\ f.size >= args.small_kb[1] * 1024
    /\ f.size <= args.small_kb[2] * 1024

\* C5 as stated: in normal mode, whenever setup_small_files returns a
\* directory, it holds exactly small_file_count .bin files, each of a size
\* between small_min_kb * 1024 and small_max_kb * 1024.
C5_AsStated ==
    [][SmallSetupReturns =>
         /\ Cardinality(DOMAIN local_small') = args.small_count
         /\ \A i \in DOMAIN local_small' : InRange(local_small'[i])]_vars

\* C5 amended: in normal mode, whenever setup_small_files returns a
\* directory, it holds exactly max(small_file_count, 0) .bin files; if
\* exactly small_file_count files were found they are the files found,
\* unchanged, whatever their sizes; otherwise every file was generated by
\* this call with a size between small_min_kb * 1024 and
\* small_max_kb * 1024.
C5_SmallFilesAfterSetup ==
    [][SmallSetupReturns =>
         /\ Cardinality(DOMAIN local_small')
              = (IF args.small_count > 0 THEN args.small_count ELSE 0)
         /\ IF Cardinality(DOMAIN local_small) = args.small_count
            THEN local_small' = local_small
            ELSE \A i \in DOMAIN local_small' :
                   /\ local_small'[i].ver = run_num
                   /\ InRange(local_small'[i])]_vars

\* Two files found with --small-count 2 are reused although one of them is
\* larger than --small-max-kb.
C5_Witness ==
    /\ pc = "tests" /\ ~args.no_gen /\ small_dir = Path
    /\ args.small_count = 2 /\ args.small_kb = <<1, 2>>
    /\ \E i \in DOMAIN local_small : local_small[i].size > 2 * 1024

Sections == {"large_file", "small_files"}

\* The runs that completed: reached save_report and were appended.  Run
\* run_num counts once it is under way (not yet at its constructor) and
\* has completed.
CompletedRuns ==
    IF status = "completed" /\ pc # "construct" THEN run_num ELSE run_num - 1

\* The values of a metric over the runs in all_results.
Values(section, d, m) ==
    [i \in 1 .. Len(all_results) |-> all_results[i][section][d][m]]

IsMinOf(x, q) == (\E i \in DOMAIN q : q[i] = x) /\ (\A i \in DOMAIN q : x <= q[i])
IsMaxOf(x, q) == (\E i \in DOMAIN q : q[i] = x) /\ (\A i \in DOMAIN q : x >= q[i])
Total(q) == Sum(q, DOMAIN q)

\* v hundredths is num / den rounded to two decimals: within half of 0.01.
Near(v, num, den) ==
    LET diff == v * den - num * 100 IN
    2 * (IF diff < 0 THEN -diff ELSE diff) <= den

C7_CleanupFailureNotFatal ==
    [][(pc = "cleanup" /\ cleanup_result' = "Exception") =>
         /\ pc' # "uncaught"
         /\ status = "completed" =>
              /\ run_num < args.batch
                   => pc' = "construct" /\ run_num' = run_num + 1
              /\ (run_num = args.batch /\ args.batch > 1)
                   => pc' = "aggregate"]_vars

\* The second run completed after the cleanup of the first had failed.
C7_Witness ==
    /\ run_num = 2 /\ pc = "cleanup" /\ status = "completed"
    /\ cleanup_result = "Exception"

AfterTry == {"cleanup", "aggregate", "done", "uncaught"}

LargeSkipped ==
    /\ large_file = None
    /\ ~InTrace("large_upload") /\ ~InTrace("large_download")
    /\ DOMAIN results.large_file = {}
    /\ ~remote.large /\ "download_temp" \notin local_temp
    /\ \A i \in DOMAIN all_results : DOMAIN all_results[i].large_file = {}

SmallSkipped ==
    /\ small_dir = None
    /\ ~InTrace("small_upload") /\ ~InTrace("small_download")
    /\ DOMAIN results.small_files = {}
    /\ ~remote.small /\ "small_files_temp_down" \notin local_temp
    /\ \A i \in DOMAIN all_results : DOMAIN all_results[i].small_files = {}

C9_State ==
    args.no_gen =>
      /\ ~initial.large.exists => LargeSkipped
      /\ DOMAIN initial.small = {} => SmallSkipped

C9_Step ==
    args.no_gen =>
      /\ (pc = "setup_large" /\ ~local_large.exists /\ ~Raised')
           => large_file' = None /\ pc' = "setup_small"
      /\ (pc = "setup_small" /\ DOMAIN local_small = {} /\ ~Raised')
           => small_dir' = None /\ pc' = "tests"
      /\ pc = "tests"
           => pc' = (IF large_file # None THEN "large_up"
                     ELSE IF small_dir # None THEN "small_up"
                     ELSE "save_report")
      /\ (pc = "large_down" /\ ~Raised')
           => pc' = (IF small_dir # None THEN "small_up" ELSE "save_report")

\* C9: in no-generation mode a missing large file makes setup_large_file
\* return None and no large-file copy happens, missing small files make
\* setup_small_files return None and no small-file copy happens, each
\* independently of the other; the run goes on to save_report with the
\* skipped section empty.
C9_MissingInputIsSkipped == []C9_State /\ [][C9_Step]_vars

\* A no-generation run without a large file completed: its small-file test
\* ran and its large_file section is empty.
C9_Witness ==
    /\ args.no_gen /\ ~initial.large.exists
    /\ status = "completed" /\ run_num \in reports
    /\ DOMAIN results.large_file = {}
    /\ \A d \in Directions : Recorded(results, "small_files", d)

WellFormed(res) ==
    \A section \in Sections :
      \/ DOMAIN res[section] = {}
      \/ \A d \in Directions : Recorded(res, section, d)

\* C10: when save_report reads the run's results, and in every result that
\* calculate_aggregate_stats may read, each section is empty or holds an
\* upload and a download entry with all five metrics.
C10_ResultsWellFormedWhenRead ==
    /\ pc = "save_report" => WellFormed(results)
    /\ \A i \in DOMAIN all_results : WellFormed(all_results[i])

\* After a completed run, a second run measured a large download of zero
\* seconds: its upload entry has no download beside it, and the run ended
\* without save_report reading it.
C10_Witness ==
    /\ run_num = 2 /\ Len(all_results) = 1 /\ status = "KeyError"
    /\ pc = "done" /\ ~InTrace("save_report")
    /\ DOMAIN results.large_file = {"upload"}

=============================================================================
